---- MODULE Spec2Model ----
(***************************************************************************)
(* Model of the Agora crawl engine.                                        *)
(*                                                                         *)
(*  - the sequential AgoraCrawlerService of src/scraper/agora_crawler.py   *)
(*    (specification Spec), and                                            *)
(*  - the asyncio crawler of src/src/backend/crawler.py                    *)
(*    (specification AsyncSpec).                                           *)
(*                                                                         *)
(* A URL is a record [scheme, netloc, path, wf]: path is the sequence of   *)
(* the characters of the URL's path, wf says whether validators.url        *)
(* accepts the string.                                                     *)
(***************************************************************************)
EXTENDS Integers, Sequences, FiniteSets, TLC

VARIABLES
    \* ---- AgoraCrawlerService (sequential) ----
    entry,               \* the method called: crawl_recursive or crawl_url_batch
    pc,                  \* position of the call
    start_url,           \* argument of crawl_recursive
    max_depth,           \* argument of crawl_recursive
    max_pages_per_level, \* argument of crawl_recursive
    respect_robots,      \* AgoraCrawlerService.respect_robots
    robots_txt,          \* the robots.txt the seed's site serves
    depth,               \* loop variable of crawl_recursive
    all_crawl_results,   \* crawl_recursive: list of CrawlResult
    all_child_links,     \* crawl_recursive: set of URL
    current_level,       \* crawl_recursive: list of URL
    limited_urls,        \* crawl_recursive: the batch being crawled
    crawled_results,     \* crawl_url_batch: list of CrawlResult
    batch_child_links,   \* crawl_url_batch: all_child_links (a list)
    result_level,        \* for each entry of all_crawl_results, its level
    net_log,             \* network calls and sleeps, in the order made
    ret,                 \* the dictionary crawl_recursive returned
    \* ---- asyncio crawler ----
    ROBOTS_CACHE,        \* _ROBOTS_CACHE: domain -> policy tuple
    DOMAIN_SEMAPHORES,   \* _DOMAIN_SEMAPHORES: domain -> Semaphore object
    RATE_LIMITS,         \* _RATE_LIMITS: domain -> (requests, seconds)
    LAST_REQUEST_TIMES,  \* _LAST_REQUEST_TIMES: domain -> list of times
    sems,                \* the Semaphore objects created, by identity: their
                         \* value and the value they were created with
    tasks,               \* the _fetch_one tasks gathered so far
    now,                 \* time.monotonic(), in ticks
    site_robots,         \* what each domain answers for /robots.txt
    a_entry,             \* the coroutine run: crawl_target or crawl_jobs
    a_pc,                \* position of that coroutine
    a_parent_url,        \* argument parent_url of crawl_target
    recursive_depth,     \* argument of crawl_target
    level_i,             \* loop variable i of crawl_target
    next_gen,            \* crawl_target: next_gen / crawl_jobs: jobs
    crawl_result,        \* crawl_target: crawl_result
    all_descendant_links,\* crawl_target: all_descendant_links
    get_log,             \* the page GETs issued: domain, time, task
    a_ret,               \* what the coroutine returned
    \* ---- a single call of a pure function ----
    fn,                  \* the function called
    fn_args,             \* its arguments
    fn_result,           \* what it returned
    \* ---- the caller of a crawl ----
    deadline             \* the overall deadline of the run, kept by the caller

svars == << entry, pc, start_url, max_depth, max_pages_per_level, respect_robots,
            robots_txt, depth, all_crawl_results, all_child_links,
            current_level, limited_urls, crawled_results, batch_child_links,
            result_level, net_log, ret >>

avars == << ROBOTS_CACHE, DOMAIN_SEMAPHORES, RATE_LIMITS, LAST_REQUEST_TIMES,
            sems, tasks, now, site_robots, a_entry, a_pc, a_parent_url,
            recursive_depth, level_i, next_gen, crawl_result,
            all_descendant_links, get_log, a_ret >>

pvars == << fn, fn_args, fn_result >>

cvars == << deadline >>

vars == << svars, avars, pvars, cvars >>

-----------------------------------------------------------------------------
(* Bounds of the model *)

MaxDepth == 3
MaxPages == 2
MaxPathLen == 4
MaxHrefs == 3

-----------------------------------------------------------------------------
(* Status constants *)

CRAWL_SUCCESS == "success"
CRAWL_FAILED == "failed"
CRAWL_ROBOTS_BLOCKED == "robots_blocked"
CRAWL_INVALID_URL == "invalid_url"

default_crawl_delay == 1

None == <<>>
Some(v) == << v >>

-----------------------------------------------------------------------------
(* Strings as sequences of characters *)

RECURSIVE rstrip(_)
rstrip(s) ==
    IF s # <<>> /\ s[Len(s)] = "/" THEN rstrip(SubSeq(s, 1, Len(s) - 1)) ELSE s

startswith(s, p) ==
    Len(p) <= Len(s) /\ SubSeq(s, 1, Len(p)) = p

\* the part of a path up to and including its last "/"
RECURSIVE dirname(_)
dirname(s) ==
    IF s = <<>> THEN << "/" >>
    ELSE IF s[Len(s)] = "/" THEN s ELSE dirname(SubSeq(s, 1, Len(s) - 1))

Url(scheme, netloc, path, wf) ==
    [scheme |-> scheme, netloc |-> netloc, path |-> path, wf |-> wf]

Site(path) == Url("https", "site", path, TRUE)

pA   == << "/", "a" >>
pAB  == << "/", "a", "/", "b" >>
pABs == << "/", "a", "/", "b", "/" >>
pAb  == << "/", "a", "b" >>

InvalidSeed == Url("", "", << "a" >>, FALSE)

Seeds == { Site(pA), Site(pABs), InvalidSeed }

\* the href attributes a page may carry
Href(kind, url) == [kind |-> kind, url |-> url]

hA     == Href("root", Site(pA))
hAB    == Href("root", Site(pAB))
hABs   == Href("root", Site(pABs))
hAb    == Href("root", Site(pAb))
hBad   == Href("root", Url("https", "site", pAB \o << " " >>, FALSE))
hAbsAB == Href("abs", Site(pAB))
hOther == Href("abs", Url("https", "other", pAB, TRUE))
hRelB  == Href("rel", Url("", "", << "b" >>, TRUE))
hFrag  == Href("skip", Url("", "", << "#" >>, TRUE))
hB     == Href("root", Site(<< "/", "b" >>))

SeqsUpTo(S, n) == UNION { [1..k -> S] : k \in 0..n }

Range(s) == { s[i] : i \in 1..Len(s) }

NoDup(s) == \A i, j \in 1..Len(s) : s[i] = s[j] => i = j

\* list(set(s)): the elements of s, each once, in any order
ListOfSet(S) == { s \in [1..Cardinality(S) -> S] : Range(s) = S }

\* a slice that keeps the whole list
SliceAll(s, n) == s

\* python's s[:n]
SliceTo(s, n) ==
    LET k == IF n >= 0 THEN n ELSE Len(s) + n
        m == IF k < 0 THEN 0 ELSE IF k > Len(s) THEN Len(s) ELSE k
    IN  SubSeq(s, 1, m)

-----------------------------------------------------------------------------
(* AgoraCrawlerService: pure helpers *)

\* a validation that accepts every string
validate_url_accepts_all(url) == TRUE

validate_url(url) == url.wf

\* is_sub_path without the separator check of line 162
is_sub_path_any_prefix(link, parent_url) ==
    /\ link.netloc = parent_url.netloc
    /\ startswith(rstrip(link.path), rstrip(parent_url.path))

is_sub_path(link, parent_url) ==
    IF link.netloc # parent_url.netloc THEN FALSE
    ELSE LET link_path == rstrip(link.path)
             parent_path == rstrip(parent_url.path)
         IN  IF ~startswith(link_path, parent_path) THEN FALSE
             ELSE IF link_path = parent_path THEN TRUE
             ELSE link_path[Len(parent_path) + 1] = "/"

\* the absolute URL an href becomes; <<>> when the href is dropped
absolute_link(href, parent_url) ==
    CASE href.kind = "root" ->
            Some(Url(parent_url.scheme, parent_url.netloc, href.url.path, href.url.wf))
      [] href.kind = "abs" -> Some(href.url)
      [] href.kind = "rel" ->
            Some(Url(parent_url.scheme, parent_url.netloc,
                     dirname(parent_url.path) \o href.url.path, href.url.wf))
      [] OTHER -> None

RECURSIVE absolute_links(_, _)
absolute_links(raw_links, parent_url) ==
    IF raw_links = <<>> THEN <<>>
    ELSE absolute_link(Head(raw_links), parent_url)
         \o absolute_links(Tail(raw_links), parent_url)

\* a filter that only validates
valid_child_any_scope(link, parent_url) == validate_url(link)

\* a filter that only tests the scope
valid_child_unvalidated(link, parent_url) == is_sub_path(link, parent_url)

valid_child(link, parent_url) ==
    is_sub_path(link, parent_url) /\ validate_url(link)

\* a list left as it is
unique_keeps_all(links, seen) == links

RECURSIVE unique(_, _)
unique(links, seen) ==
    IF links = <<>> THEN <<>>
    ELSE IF Head(links) \in seen THEN unique(Tail(links), seen)
    ELSE << Head(links) >> \o unique(Tail(links), seen \cup { Head(links) })

extract_child_links(raw_links, parent_url) ==
    unique(SelectSeq(absolute_links(raw_links, parent_url),
                     LAMBDA l : valid_child(l, parent_url)),
           {})

-----------------------------------------------------------------------------
(* robots.txt: what the site serves and what Protego answers from it *)

RobotsTxt(disallow, crawl_delay, request_rate, parses) ==
    [disallow |-> disallow, crawl_delay |-> crawl_delay,
     request_rate |-> request_rate, parses |-> parses]

\* rp.can_fetch(url, ua): no Disallow prefix matches the URL's path
can_fetch(txt, url) ==
    \A p \in txt.disallow : ~startswith(url.path, p)

RobotsInfo(crawl_delay, request_rate, is_allowed) ==
    [crawl_delay |-> crawl_delay, request_rate |-> request_rate,
     is_allowed |-> is_allowed]

\* x or default
OrDefault(opt, default) ==
    IF opt = None \/ opt = Some(0) THEN default ELSE opt[1]

\* a handler that forgets httpx.HTTPStatusError
RobotsGetCaught_request_only == { "RequestError" }

\* the exceptions the first handler of read_robots_txt catches
RobotsGetCaught == { "RequestError", "HTTPStatusError" }

\* read_robots_txt(url) when the robots.txt GET ends as get_outcome
\* ("ok", or the exception it raises); exc is the exception that escapes
read_robots_txt(url, txt, get_outcome) ==
    IF get_outcome # "ok"
    THEN IF get_outcome \in RobotsGetCaught
         THEN [exc |-> "", info |-> RobotsInfo(default_crawl_delay, None, TRUE)]
         ELSE [exc |-> get_outcome, info |-> RobotsInfo(0, None, TRUE)]
    ELSE IF ~txt.parses
         THEN [exc |-> "", info |-> RobotsInfo(default_crawl_delay, None, TRUE)]
         ELSE [exc |-> "",
               info |-> RobotsInfo(OrDefault(txt.crawl_delay, default_crawl_delay),
                                   txt.request_rate, can_fetch(txt, url))]

-----------------------------------------------------------------------------
(* fetch_url *)

CrawlResult(url, title, content, status, children, robots_allowed, crawl_delay, status_code, error_message) ==
    [url |-> url, title |-> title, content |-> content, status |-> status,
     children |-> children, robots_allowed |-> robots_allowed,
     crawl_delay |-> crawl_delay, status_code |-> status_code,
     error_message |-> error_message]

Html(hrefs, has_title, parse_ok) ==
    [hrefs |-> hrefs, has_title |-> has_title, parse_ok |-> parse_ok]

Response(status_code, html) ==
    [kind |-> "response", status_code |-> status_code, html |-> html, exc |-> ""]

Raises(exc) ==
    [kind |-> "exc", status_code |-> 0, html |-> Html(<<>>, FALSE, FALSE), exc |-> exc]

\* parse_html_content(html, parent_url) -> (title, child_links, content)
parse_html_content(html, parent_url) ==
    IF ~html.parse_ok
    THEN [title |-> "None", child_links |-> <<>>, content |-> ""]
    ELSE [title |-> IF html.has_title THEN "title" ELSE "None",
          child_links |-> extract_child_links(html.hrefs, parent_url),
          content |-> "text"]

\* entries of net_log: what was done for which URL, how it ended, the hrefs
\* of the document a page GET received, and in which call of fetch_url
\* (numbered by the caller)
RobotsGet(url, outcome) ==
    [op |-> "robots_get", url |-> url, seconds |-> 0, outcome |-> outcome,
     hrefs |-> <<>>, call |-> 0]
PageGet(url, page) ==
    [op |-> "page_get", url |-> url, seconds |-> 0, outcome |-> page.kind,
     hrefs |-> page.html.hrefs, call |-> 0]
Sleep(url, s) ==
    [op |-> "sleep", url |-> url, seconds |-> s, outcome |-> "ok",
     hrefs |-> <<>>, call |-> 0]

InCall(log, n) == [i \in 1..Len(log) |-> [log[i] EXCEPT !.call = n]]

\* a fetch that never looks at is_allowed
robots_denied_ignored(respect, info) == FALSE

\* line 283: the robots check stops the fetch
robots_denied(respect, info) == respect /\ ~info.is_allowed

\* a classification that parses every response, whatever its status
page_result_any_status(url, robots_info, page) ==
    LET allowed == IF robots_info = None THEN TRUE ELSE robots_info[1].is_allowed
        delay == IF robots_info = None THEN None
                 ELSE Some(robots_info[1].crawl_delay)
    IN  IF page.kind = "exc"
        THEN CrawlResult(url, "None", "", CRAWL_FAILED, <<>>, allowed, delay,
                         None, page.exc)
        ELSE LET parsed == parse_html_content(page.html, url)
             IN  CrawlResult(url, parsed.title, parsed.content, CRAWL_SUCCESS,
                             parsed.child_links, allowed, delay,
                             Some(page.status_code), "None")

\* the outcome of the page GET of fetch_url, as classified by lines 303-353
page_result(url, robots_info, page) ==
    LET allowed == IF robots_info = None THEN TRUE ELSE robots_info[1].is_allowed
        delay == IF robots_info = None THEN None
                 ELSE Some(robots_info[1].crawl_delay)
    IN  IF page.kind = "exc"
        THEN CrawlResult(url, "None", "", CRAWL_FAILED, <<>>, allowed, delay,
                         None, page.exc)
        ELSE IF page.status_code = 200
        THEN LET parsed == parse_html_content(page.html, url)
             IN  CrawlResult(url, parsed.title, parsed.content, CRAWL_SUCCESS,
                             parsed.child_links, allowed, delay,
                             Some(page.status_code), "None")
        ELSE CrawlResult(url, "None", "", CRAWL_FAILED, <<>>, allowed, delay,
                         Some(page.status_code), "HTTP")

\* fetch_url(url): robots_outcome is how the robots.txt GET ends, page how
\* the page GET ends.  exc is the exception that escapes fetch_url ("" when
\* it returns), log the network calls and sleeps it made.
fetch_url(url, respect, txt, robots_outcome, page) ==
    IF ~validate_url(url)
    THEN [exc |-> "", log |-> <<>>,
          result |-> CrawlResult(url, "None", "", CRAWL_INVALID_URL, <<>>, FALSE,
                                 None, None, "Invalid URL format")]
    ELSE
      LET rr == read_robots_txt(url, txt, robots_outcome)
          robots_info == IF respect THEN Some(rr.info) ELSE None
          rlog == IF respect THEN << RobotsGet(url, robots_outcome) >> ELSE <<>>
          slog == IF respect /\ rr.info.crawl_delay # 0
                  THEN << Sleep(url, rr.info.crawl_delay) >> ELSE <<>>
      IN  IF respect /\ rr.exc # ""
          THEN [exc |-> rr.exc, log |-> rlog,
                result |-> CrawlResult(url, "None", "", "raised", <<>>, FALSE,
                                       None, None, rr.exc)]
          ELSE IF robots_denied(respect, rr.info)
          THEN [exc |-> "", log |-> rlog,
                result |-> CrawlResult(url, "None", "", CRAWL_ROBOTS_BLOCKED, <<>>,
                                       FALSE, Some(rr.info.crawl_delay), None,
                                       "Blocked by robots.txt")]
          ELSE [exc |-> "", log |-> rlog \o slog \o << PageGet(url, page) >>,
                result |-> page_result(url, robots_info, page)]

-----------------------------------------------------------------------------
(* The inputs and the environment of a sequential run *)

RobotsTxts ==
    { RobotsTxt({}, None, None, TRUE),
      RobotsTxt({ pAB }, Some(2), None, TRUE),
      RobotsTxt({ pA }, Some(2), None, TRUE),
      RobotsTxt({ pA }, Some(2), None, FALSE) }

\* the services run: respect_robots and the robots.txt of the site
Services ==
    ({ TRUE } \X RobotsTxts) \cup { << FALSE, RobotsTxt({ pA }, Some(2), None, TRUE) >> }

\* how the GET of /robots.txt may end
RobotsOutcomes == { "ok", "RequestError", "HTTPStatusError" }

\* the documents a page may serve
Htmls ==
    { Html(<<>>, TRUE, TRUE),
      Html(<< hAB, hABs >>, TRUE, TRUE),
      Html(<< hAB, hB >>, TRUE, TRUE),
      Html(<< hAB, hAbsAB, hAb >>, TRUE, TRUE),
      Html(<< hA, hOther, hRelB >>, TRUE, TRUE),
      Html(<< hABs, hBad, hFrag >>, TRUE, TRUE),
      Html(<< hABs, hA >>, TRUE, TRUE),
      Html(<< hAB >>, FALSE, TRUE),
      Html(<< hAB >>, FALSE, FALSE) }

\* how the GET of a page may end
PageOutcomes ==
    { Response(200, h) : h \in Htmls }
    \cup { Response(404, Html(<<>>, TRUE, TRUE)),
           Response(204, Html(<<>>, TRUE, TRUE)),
           Raises("RequestError") }

\* the argument lists of a direct call of crawl_url_batch
BatchInputs ==
    { << InvalidSeed, Site(pA) >>,
      << Site(pAB), InvalidSeed, Site(pAB) >>,
      << Site(pA), Site(pABs) >> }

NoReturn == [returned |-> FALSE]

-----------------------------------------------------------------------------
(* crawl_recursive, step by step *)

\* the caller's deadline has not passed
NoDeadline == deadline = [passed |-> FALSE]

\* no pure function is called on its own
NoCall ==
    /\ fn = "none"
    /\ fn_args = <<>>
    /\ fn_result = <<>>

\* the asyncio crawler, not running
AsyncIdle ==
    /\ ROBOTS_CACHE = << >>
    /\ DOMAIN_SEMAPHORES = << >>
    /\ RATE_LIMITS = << >>
    /\ LAST_REQUEST_TIMES = << >>
    /\ sems = << >>
    /\ tasks = << >>
    /\ now = 0
    /\ site_robots = << >>
    /\ a_entry = "none"
    /\ a_pc = "idle"
    /\ a_parent_url = InvalidSeed
    /\ recursive_depth = 0
    /\ level_i = 0
    /\ next_gen = << >>
    /\ crawl_result = << >>
    /\ all_descendant_links = << >>
    /\ get_log = << >>
    /\ a_ret = NoReturn

Init ==
    /\ AsyncIdle
    /\ NoCall
    /\ NoDeadline
    /\ \/ /\ entry = "crawl_recursive"
          /\ pc = "start"
          /\ start_url \in Seeds
          /\ max_depth \in 0..MaxDepth
          /\ max_pages_per_level \in 0..MaxPages
          /\ limited_urls = <<>>
       \/ /\ entry = "crawl_url_batch"
          /\ pc = "batch"
          /\ start_url = InvalidSeed
          /\ max_depth = 0
          /\ max_pages_per_level = 0
          /\ limited_urls \in BatchInputs
    /\ \E svc \in Services : respect_robots = svc[1] /\ robots_txt = svc[2]
    /\ depth = 0
    /\ all_crawl_results = <<>>
    /\ all_child_links = {}
    /\ current_level = <<>>
    /\ crawled_results = <<>>
    /\ batch_child_links = <<>>
    /\ result_level = <<>>
    /\ net_log = <<>>
    /\ ret = NoReturn

CountStatus(results, status) ==
    Cardinality({ i \in 1..Len(results) : results[i].status = status })

\* lines 392-399: an invalid seed returns at once
InvalidStart ==
    /\ pc = "start"
    /\ ~validate_url(start_url)
    /\ ret' = [returned |-> TRUE, error |-> "Invalid start URL",
               crawl_results |-> <<>>, child_links |-> {}, total_pages |-> 0]
    /\ pc' = "done"
    /\ UNCHANGED << cvars, pvars, avars, entry, start_url, max_depth, max_pages_per_level, respect_robots,
                    robots_txt, depth, all_crawl_results, all_child_links,
                    current_level, limited_urls, crawled_results,
                    batch_child_links, result_level, net_log >>

\* lines 401-406
Start ==
    /\ pc = "start"
    /\ validate_url(start_url)
    /\ all_crawl_results' = <<>>
    /\ all_child_links' = {}
    /\ current_level' = << start_url >>
    /\ depth' = 0
    /\ pc' = "loop"
    /\ UNCHANGED << cvars, pvars, avars, entry, start_url, max_depth, max_pages_per_level, respect_robots,
                    robots_txt, limited_urls, crawled_results,
                    batch_child_links, result_level, net_log, ret >>

\* a loop that runs one level too many
LoopContinues_one_more == depth <= max_depth /\ current_level # <<>>

\* the loop of line 408 goes on
LoopContinues == depth < max_depth /\ current_level # <<>>

\* lines 408-420: the level's batch is cut and crawl_url_batch is entered
LevelBegin ==
    /\ pc = "loop"
    /\ LoopContinues
    /\ limited_urls' = SliceTo(current_level, max_pages_per_level)
    /\ crawled_results' = <<>>
    /\ batch_child_links' = <<>>
    /\ pc' = "batch"
    /\ UNCHANGED << cvars, pvars, avars, entry, start_url, max_depth, max_pages_per_level, respect_robots,
                    robots_txt, depth, all_crawl_results, all_child_links,
                    current_level, result_level, net_log, ret >>

\* lines 363-373: one iteration of the loop of crawl_url_batch
BatchFetch ==
    /\ pc = "batch"
    /\ Len(crawled_results) < Len(limited_urls)
    /\ \E ro \in RobotsOutcomes, page \in PageOutcomes :
         LET url == limited_urls[Len(crawled_results) + 1]
             f == fetch_url(url, respect_robots, robots_txt, ro, page)
         IN  /\ net_log' = net_log \o
                           InCall(f.log, Len(all_crawl_results) + Len(crawled_results) + 1)
             /\ IF f.exc # ""
                THEN /\ pc' = "raised"
                     /\ UNCHANGED << crawled_results, batch_child_links >>
                ELSE /\ pc' = "batch"
                     /\ crawled_results' = Append(crawled_results, f.result)
                     /\ batch_child_links' =
                          IF f.result.status = CRAWL_SUCCESS
                          THEN batch_child_links \o f.result.children
                          ELSE batch_child_links
    /\ UNCHANGED << cvars, pvars, avars, entry, start_url, max_depth, max_pages_per_level, respect_robots,
                    robots_txt, depth, all_crawl_results, all_child_links,
                    current_level, limited_urls, result_level, ret >>

\* a next level that keeps the URLs already crawled
next_level_unfiltered(child_links, results) == child_links

\* line 427: the next level
next_level(child_links, results) ==
    SelectSeq(child_links,
              LAMBDA url : url \notin { results[i].url : i \in 1..Len(results) })

\* an assignment in place of the update
replace_child_links(acc, child_links) == Range(child_links)

\* line 423: all_child_links.update(child_links)
update_child_links(acc, child_links) == acc \cup Range(child_links)

\* lines 375-378 and 420-427: crawl_url_batch returns, the level is merged
LevelEnd ==
    /\ entry = "crawl_recursive"
    /\ pc = "batch"
    /\ Len(crawled_results) = Len(limited_urls)
    /\ \E child_links \in ListOfSet(Range(batch_child_links)) :
         /\ all_crawl_results' = all_crawl_results \o crawled_results
         /\ all_child_links' = update_child_links(all_child_links, child_links)
         /\ current_level' = next_level(child_links, all_crawl_results')
    /\ result_level' =
         result_level \o [i \in 1..Len(crawled_results) |-> depth + 1]
    /\ depth' = depth + 1
    /\ pc' = "loop"
    /\ UNCHANGED << cvars, pvars, avars, entry, start_url, max_depth, max_pages_per_level, respect_robots,
                    robots_txt, limited_urls, crawled_results,
                    batch_child_links, net_log, ret >>

\* lines 375-378, for a direct call of crawl_url_batch
BatchReturn ==
    /\ entry = "crawl_url_batch"
    /\ pc = "batch"
    /\ Len(crawled_results) = Len(limited_urls)
    /\ \E child_links \in ListOfSet(Range(batch_child_links)) :
         ret' = [returned |-> TRUE, error |-> "",
                 crawl_results |-> crawled_results,
                 child_links |-> Range(child_links)]
    /\ pc' = "done"
    /\ UNCHANGED << cvars, pvars, avars, entry, start_url, max_depth, max_pages_per_level,
                    respect_robots, robots_txt, depth, all_crawl_results,
                    all_child_links, current_level, limited_urls,
                    crawled_results, batch_child_links, result_level, net_log >>

\* lines 429-445
Return ==
    /\ pc = "loop"
    /\ ~LoopContinues
    /\ ret' = [returned |-> TRUE, error |-> "",
               crawl_results |-> all_crawl_results,
               child_links |-> all_child_links,
               total_pages |-> Len(all_crawl_results),
               successful_pages |-> CountStatus(all_crawl_results, CRAWL_SUCCESS),
               failed_pages |-> CountStatus(all_crawl_results, CRAWL_FAILED),
               robots_blocked_pages |->
                   CountStatus(all_crawl_results, CRAWL_ROBOTS_BLOCKED)]
    /\ pc' = "done"
    /\ UNCHANGED << cvars, pvars, avars, entry, start_url, max_depth, max_pages_per_level, respect_robots,
                    robots_txt, depth, all_crawl_results, all_child_links,
                    current_level, limited_urls, crawled_results,
                    batch_child_links, result_level, net_log >>

Next ==
    \/ InvalidStart
    \/ Start
    \/ LevelBegin
    \/ BatchFetch
    \/ LevelEnd
    \/ BatchReturn
    \/ Return

Spec == Init /\ [][Next]_vars

-----------------------------------------------------------------------------
(* The asyncio crawler: shared state and helpers *)

GOOD_STATUS == "success"
FAILED_STATUS == "failed"
DEFAULT_CONCURRENCY == 3

MaxTime == 2
MaxRecursiveDepth == 3

Domains == { "site", "other" }

\* one key for every URL
get_domain_global(url) == "site"

get_domain(url) == url.netloc

\* the tuple read_robots_txt caches and returns (preferred_host left out)
Policy(crawl_delay, request_rate, is_allowed) ==
    [crawl_delay |-> crawl_delay, request_rate |-> request_rate,
     is_allowed |-> is_allowed]

\* what a domain answers to GET /robots.txt
Served(txt) == [served |-> TRUE, txt |-> txt]
Unreachable == [served |-> FALSE, txt |-> RobotsTxt({}, None, None, TRUE)]

\* the mutable state the steps of a task work on
AState ==
    [cache |-> ROBOTS_CACHE, domsem |-> DOMAIN_SEMAPHORES, rate |-> RATE_LIMITS,
     hist |-> LAST_REQUEST_TIMES, sems |-> sems, tasks |-> tasks, gets |-> get_log]

Commit(st) ==
    /\ ROBOTS_CACHE' = st.cache
    /\ DOMAIN_SEMAPHORES' = st.domsem
    /\ RATE_LIMITS' = st.rate
    /\ LAST_REQUEST_TIMES' = st.hist
    /\ sems' = st.sems
    /\ tasks' = st.tasks
    /\ get_log' = st.gets

\* a _fetch_one task that has not run yet
NewTask(url, level) ==
    [url |-> url, level |-> level, pc |-> "new", sem |-> 0, wake |-> 0,
     crawl_delay |-> None, status |-> FAILED_STATUS, error |-> "",
     title |-> "", children |-> <<>>]

\* asyncio.Semaphore(n): a new object; its identity is its index in sems
NewSemaphore(st, n) ==
    [st EXCEPT !.sems = Append(@, [value |-> n, initial |-> n])]

-----------------------------------------------------------------------------
(* fetch and _fetch_one, from one suspension point to the next *)

\* lines 209 and 231-242: fetch returns a failure, _fetch_one wraps it
ReturnFailed(st, t, error) ==
    [st EXCEPT !.tasks[t].pc = "done", !.tasks[t].status = FAILED_STATUS,
               !.tasks[t].error = error]

\* lines 195-196: the page GET is sent
StartGet(st, t) ==
    [st EXCEPT !.tasks[t].pc = "get",
               !.gets = Append(@, [domain |-> get_domain(st.tasks[t].url),
                                   time |-> now, task |-> t])]

\* line 168: the request is recorded, then the GET is sent
Stamp(st, t) ==
    StartGet([st EXCEPT !.hist[get_domain(st.tasks[t].url)] = Append(@, now)], t)

\* _enforce_rate_limit up to its sleep, or through to the GET
enforce_rate_limit(st, t) ==
    LET domain == get_domain(st.tasks[t].url)
    IN  IF st.rate[domain] = None THEN StartGet(st, t)
        ELSE
          LET reqs == st.rate[domain][1][1]
              seconds == st.rate[domain][1][2]
              history == SelectSeq(st.hist[domain], LAMBDA x : now - x < seconds)
              st1 == [st EXCEPT !.hist[domain] = history]
          IN  IF Len(history) >= reqs /\ seconds - (now - history[1]) > 0
              THEN [st1 EXCEPT !.tasks[t].pc = "rate",
                               !.tasks[t].wake = now + (seconds - (now - history[1]))]
              ELSE Stamp(st1, t)

\* lines 191-193: inside the gate
InsideGate(st, t) ==
    IF st.tasks[t].crawl_delay # None /\ st.tasks[t].crawl_delay # Some(0)
    THEN [st EXCEPT !.tasks[t].pc = "delay",
                    !.tasks[t].wake = now + st.tasks[t].crawl_delay[1]]
    ELSE enforce_rate_limit(st, t)

\* line 190: async with sem, entered at once when a permit is free
Acquire(st, t, sem) ==
    IF st.sems[sem].value > 0
    THEN InsideGate([st EXCEPT !.sems[sem].value = @ - 1, !.tasks[t].sem = sem], t)
    ELSE [st EXCEPT !.tasks[t].pc = "acquire", !.tasks[t].sem = sem]

\* lines 186-188: the semaphore the fetch will use
domain_semaphore(st, t) ==
    LET domain == get_domain(st.tasks[t].url)
    IN  IF st.domsem[domain] # 0 THEN Acquire(st, t, st.domsem[domain])
        ELSE LET st1 == NewSemaphore(st, DEFAULT_CONCURRENCY)
             IN  Acquire([st1 EXCEPT !.domsem[domain] = Len(st1.sems)], t, Len(st1.sems))

\* lines 179-188: fetch goes on with the policy read_robots_txt returned
AfterRobots(st, t, policy) ==
    IF policy.is_allowed = FALSE
    THEN ReturnFailed(st, t, "Blocked by robots.txt")
    ELSE domain_semaphore([st EXCEPT !.tasks[t].crawl_delay = policy.crawl_delay], t)

\* lines 72-76: robots.txt could not be read
cache_default(st, url) ==
    LET domain == get_domain(url)
        st1 == [st EXCEPT !.cache[domain] = Some(Policy(None, None, TRUE))]
    IN  IF st1.domsem[domain] # 0 THEN st1
        ELSE LET n == NewSemaphore(st1, DEFAULT_CONCURRENCY)
             IN  [n EXCEPT !.domsem[domain] = Len(n.sems)]

\* the size of the semaphore of line 92
max_conc(request_rate) ==
    IF request_rate # None THEN request_rate[1][1] ELSE DEFAULT_CONCURRENCY

\* lines 79-96: robots.txt was read: cache and controls are set
cache_policy(st, url, txt) ==
    LET domain == get_domain(url)
        policy == Policy(txt.crawl_delay, txt.request_rate, can_fetch(txt, url))
        n == NewSemaphore(st, max_conc(txt.request_rate))
    IN  [n EXCEPT !.cache[domain] = Some(policy),
                  !.domsem[domain] = Len(n.sems),
                  !.rate[domain] = IF txt.request_rate # None
                                   THEN txt.request_rate ELSE @]

\* lines 67-98 and 179: the robots.txt GET ends, read_robots_txt returns
\* _ROBOTS_CACHE[domain] and fetch goes on
robots_done(st, t, robots) ==
    LET url == st.tasks[t].url
        st1 == IF robots.served THEN cache_policy(st, url, robots.txt)
               ELSE cache_default(st, url)
    IN  AfterRobots(st1, t, st1.cache[get_domain(url)][1])

\* lines 63-69 and 179: fetch starts: a cached policy is used at once,
\* otherwise the robots.txt GET is awaited
fetch_begin(st, t) ==
    LET domain == get_domain(st.tasks[t].url)
    IN  IF st.cache[domain] # None
        THEN AfterRobots(st, t, st.cache[domain][1])
        ELSE [st EXCEPT !.tasks[t].pc = "robots"]

\* get_children: root-relative hrefs are appended to the parent URL, the
\* others are kept as written
child_link(href, parent_url) ==
    CASE href.kind = "root" ->
            Url(parent_url.scheme, parent_url.netloc,
                parent_url.path \o href.url.path, href.url.wf)
      [] href.kind = "abs" -> href.url
      [] OTHER -> Url("", "", href.url.path, FALSE)

get_children(hrefs, parent_url) ==
    SelectSeq([i \in 1..Len(hrefs) |-> child_link(hrefs[i], parent_url)],
              LAMBDA l : is_sub_path(l, parent_url))

\* parse_result: soup.title.string raises when the document has no <title>
parse_result(html, parent_url) ==
    IF ~html.parse_ok \/ ~html.has_title
    THEN [exc |-> "AttributeError", title |-> "", child_links |-> <<>>]
    ELSE [exc |-> "", title |-> "title",
          child_links |-> get_children(html.hrefs, parent_url)]

\* a fetch that releases the lease only after a response
get_done_leaks_on_error(st, t, page) ==
    LET sem == st.tasks[t].sem
        st1 == IF page.kind = "exc" THEN st
               ELSE [st EXCEPT !.sems[sem].value = @ + 1]
    IN  IF page.kind = "exc" THEN ReturnFailed(st1, t, page.exc)
        ELSE IF page.status_code # 200 THEN ReturnFailed(st1, t, "HTTP")
        ELSE LET parsed == parse_result(page.html, st.tasks[t].url)
             IN  IF parsed.exc # ""
                 THEN [st1 EXCEPT !.tasks[t].pc = "raised",
                                  !.tasks[t].error = parsed.exc]
                 ELSE [st1 EXCEPT !.tasks[t].pc = "done",
                                  !.tasks[t].status = GOOD_STATUS,
                                  !.tasks[t].title = parsed.title,
                                  !.tasks[t].children = parsed.child_links]

\* lines 196-209 and 216-242: the GET ends, the lease is released, fetch
\* returns and _fetch_one builds its entry or raises
get_done(st, t, page) ==
    LET sem == st.tasks[t].sem
        st1 == [st EXCEPT !.sems[sem].value = @ + 1]
    IN  IF page.kind = "exc" THEN ReturnFailed(st1, t, page.exc)
        ELSE IF page.status_code # 200 THEN ReturnFailed(st1, t, "HTTP")
        ELSE LET parsed == parse_result(page.html, st.tasks[t].url)
             IN  IF parsed.exc # ""
                 THEN [st1 EXCEPT !.tasks[t].pc = "raised",
                                  !.tasks[t].error = parsed.exc]
                 ELSE [st1 EXCEPT !.tasks[t].pc = "done",
                                  !.tasks[t].status = GOOD_STATUS,
                                  !.tasks[t].title = parsed.title,
                                  !.tasks[t].children = parsed.child_links]

-----------------------------------------------------------------------------
(* The asyncio crawler: inputs, tasks and the crawl_target loop *)

\* the sequential service, not running
SyncIdle ==
    /\ entry = "none"
    /\ pc = "idle"
    /\ start_url = InvalidSeed
    /\ max_depth = 0
    /\ max_pages_per_level = 0
    /\ respect_robots = FALSE
    /\ robots_txt = RobotsTxt({}, None, None, TRUE)
    /\ depth = 0
    /\ all_crawl_results = <<>>
    /\ all_child_links = {}
    /\ current_level = <<>>
    /\ limited_urls = <<>>
    /\ crawled_results = <<>>
    /\ batch_child_links = <<>>
    /\ result_level = <<>>
    /\ net_log = <<>>
    /\ ret = NoReturn

\* the robots.txt answers of domain "site"
SiteRobots ==
    { Unreachable,
      Served(RobotsTxt({}, None, Some(<< 1, 2 >>), TRUE)),
      Served(RobotsTxt({ pAB }, None, Some(<< 2, 2 >>), TRUE)),
      Served(RobotsTxt({ pA \o pA }, Some(1), None, TRUE)) }

\* the documents of the site: the seed page links to three pages below it
\* and to pages out of scope, one page below links to itself, one has no
\* <title>
SeedDoc == Html(<< hAB, hABs, hAb, hOther, hRelB >>, TRUE, TRUE)
LeafDoc == Html(<< Href("abs", Site(pA \o pABs)) >>, TRUE, TRUE)
PlainDoc == Html(<< hOther >>, TRUE, TRUE)
NoTitleDoc == Html(<< hAB >>, FALSE, TRUE)
NotFound == Response(404, Html(<<>>, TRUE, TRUE))

\* how the GET of a page may end
PagesOf(url) ==
    IF url = Site(pA)
    THEN { Response(200, SeedDoc), Response(200, NoTitleDoc), NotFound,
           Raises("RequestError"), Raises("Exception") }
    ELSE IF url = Site(pA \o pABs)
    THEN { Response(200, LeafDoc), NotFound }
    ELSE IF startswith(url.path, << "/", "b" >>)
    THEN { Response(200, PlainDoc) }
    ELSE { Response(200, PlainDoc), Response(200, NoTitleDoc) }

\* the job lists of a direct call of crawl_jobs
JobLists ==
    { << Site(pA), Site(pAB) >>,
      << Site(pA), Url("https", "other", pA, TRUE), Site(pAB) >> }

ASeeds == { Site(pA), InvalidSeed }

ColdState ==
    [cache |-> [d \in Domains |-> None], domsem |-> [d \in Domains |-> 0],
     rate |-> [d \in Domains |-> None], hist |-> [d \in Domains |-> <<>>],
     sems |-> <<>>, tasks |-> <<>>, gets |-> <<>>]

DomainState(st) ==
    /\ ROBOTS_CACHE = st.cache
    /\ DOMAIN_SEMAPHORES = st.domsem
    /\ RATE_LIMITS = st.rate
    /\ LAST_REQUEST_TIMES = st.hist
    /\ sems = st.sems

AInit ==
    /\ SyncIdle
    /\ NoCall
    /\ NoDeadline
    /\ now = 0
    /\ tasks = <<>>
    /\ get_log = <<>>
    /\ crawl_result = <<>>
    /\ all_descendant_links = <<>>
    /\ a_ret = NoReturn
    /\ level_i = 0
    /\ \E r \in SiteRobots :
         site_robots = [d \in Domains |-> IF d = "site" THEN r ELSE Unreachable]
    /\ \/ /\ a_entry = "crawl_target"
          /\ a_pc = "start"
          /\ a_parent_url \in ASeeds
          /\ recursive_depth \in 0..MaxRecursiveDepth
          /\ next_gen = <<>>
          /\ DomainState(ColdState)
       \/ /\ a_entry = "crawl_jobs"
          /\ a_pc = "loop"
          /\ a_parent_url = InvalidSeed
          /\ recursive_depth = 1
          /\ next_gen \in JobLists
          /\ DomainState(ColdState)

\* the tasks of the level being gathered
Level == level_i + 1
LevelTasks == { t \in 1..Len(tasks) : tasks[t].level = Level }

orch == << a_entry, a_pc, a_parent_url, recursive_depth, level_i, next_gen,
           crawl_result, all_descendant_links, a_ret >>

\* lines 254-257: an invalid URL returns None
TargetInvalid ==
    /\ a_pc = "start"
    /\ ~validate_url(a_parent_url)
    /\ a_pc' = "done"
    /\ a_ret' = [returned |-> TRUE, value |-> "None"]
    /\ UNCHANGED << cvars, pvars, svars, ROBOTS_CACHE, DOMAIN_SEMAPHORES, RATE_LIMITS,
                    LAST_REQUEST_TIMES, sems, tasks, now, site_robots, a_entry,
                    a_parent_url, recursive_depth, level_i, next_gen,
                    crawl_result, all_descendant_links, get_log >>

\* lines 259-262
TargetStart ==
    /\ a_pc = "start"
    /\ validate_url(a_parent_url)
    /\ next_gen' = << a_parent_url >>
    /\ a_pc' = "loop"
    /\ UNCHANGED << cvars, pvars, svars, ROBOTS_CACHE, DOMAIN_SEMAPHORES, RATE_LIMITS,
                    LAST_REQUEST_TIMES, sems, tasks, now, site_robots, a_entry,
                    a_parent_url, recursive_depth, level_i, crawl_result,
                    all_descendant_links, get_log, a_ret >>

\* lines 263-265 and 244: crawl_jobs is called and gather schedules one
\* _fetch_one task per job
LevelStart ==
    /\ a_pc = "loop"
    /\ level_i < recursive_depth
    /\ tasks' = tasks \o [i \in 1..Len(next_gen) |-> NewTask(next_gen[i], Level)]
    /\ a_pc' = "gather"
    /\ UNCHANGED << cvars, pvars, svars, ROBOTS_CACHE, DOMAIN_SEMAPHORES, RATE_LIMITS,
                    LAST_REQUEST_TIMES, sems, now, site_robots, a_entry,
                    a_parent_url, recursive_depth, level_i, next_gen,
                    crawl_result, all_descendant_links, get_log, a_ret >>

\* the event loop runs new tasks in the order gather created them
FirstNew(t) ==
    /\ tasks[t].pc = "new"
    /\ \A u \in 1..(t - 1) : tasks[u].pc # "new"

\* the first steps of the tasks gather created are queued together and run
\* before any completion or timer is handled
AllBegun == \A t \in 1..Len(tasks) : tasks[t].pc # "new"

\* a task runs from its start to its first suspension
TaskBegin ==
    /\ \E t \in 1..Len(tasks) :
         /\ FirstNew(t)
         /\ Commit(fetch_begin(AState, t))
    /\ UNCHANGED << cvars, pvars, svars, now, site_robots, orch >>

\* the robots.txt GET of a task ends
TaskRobotsDone ==
    /\ AllBegun
    /\ \E t \in 1..Len(tasks) :
         /\ tasks[t].pc = "robots"
         /\ Commit(robots_done(AState, t, site_robots[get_domain(tasks[t].url)]))
    /\ UNCHANGED << cvars, pvars, svars, now, site_robots, orch >>

\* a task waiting for the semaphore gets a permit
TaskAcquired ==
    /\ AllBegun
    /\ \E t \in 1..Len(tasks) :
         /\ tasks[t].pc = "acquire"
         /\ sems[tasks[t].sem].value > 0
         /\ Commit(Acquire(AState, t, tasks[t].sem))
    /\ UNCHANGED << cvars, pvars, svars, now, site_robots, orch >>

\* the crawl-delay sleep of a task ends
TaskDelayDone ==
    /\ AllBegun
    /\ \E t \in 1..Len(tasks) :
         /\ tasks[t].pc = "delay"
         /\ now >= tasks[t].wake
         /\ Commit(enforce_rate_limit(AState, t))
    /\ UNCHANGED << cvars, pvars, svars, now, site_robots, orch >>

\* the rate-limit sleep of a task ends
TaskRateDone ==
    /\ AllBegun
    /\ \E t \in 1..Len(tasks) :
         /\ tasks[t].pc = "rate"
         /\ now >= tasks[t].wake
         /\ Commit(Stamp(AState, t))
    /\ UNCHANGED << cvars, pvars, svars, now, site_robots, orch >>

\* the page GET of a task ends
TaskGetDone ==
    /\ AllBegun
    /\ \E t \in 1..Len(tasks) :
         /\ tasks[t].pc = "get"
         /\ \E page \in PagesOf(tasks[t].url) :
              Commit(get_done(AState, t, page))
    /\ UNCHANGED << cvars, pvars, svars, now, site_robots, orch >>

\* time passes while tasks are suspended; the tasks of a gather that raised
\* are not cancelled and run on
Tick ==
    /\ a_pc \in { "gather", "raised" }
    /\ AllBegun
    /\ now < MaxTime
    /\ now' = now + 1
    /\ UNCHANGED << cvars, pvars, svars, ROBOTS_CACHE, DOMAIN_SEMAPHORES, RATE_LIMITS,
                    LAST_REQUEST_TIMES, sems, tasks, site_robots, orch, get_log >>

\* a wait that returns with the first result
gather_first_done(level_tasks) == \E t \in level_tasks : tasks[t].pc = "done"

\* asyncio.gather has every result
gather_done(level_tasks) == \A t \in level_tasks : tasks[t].pc = "done"

\* the crawl entries of the tasks of a level, in job order
Entry(t) ==
    [url |-> tasks[t].url, title |-> tasks[t].title, status |-> tasks[t].status,
     children |-> tasks[t].children, error |-> tasks[t].error]

RECURSIVE Flatten(_)
Flatten(ss) == IF ss = <<>> THEN <<>> ELSE Head(ss) \o Flatten(Tail(ss))

LevelEntries ==
    LET first == Len(tasks) - Cardinality(LevelTasks)
    IN  [i \in 1..Cardinality(LevelTasks) |-> Entry(first + i)]

LevelChildLinks ==
    Flatten([i \in 1..Len(LevelEntries) |-> LevelEntries[i].children])

\* lines 244-249 and 265-270: gather returns, crawl_jobs returns, the level
\* is merged
TargetLevelEnd ==
    /\ a_entry = "crawl_target"
    /\ a_pc = "gather"
    /\ gather_done(LevelTasks)
    /\ \E child_links \in ListOfSet(Range(LevelChildLinks)) :
         /\ next_gen' = child_links
         /\ all_descendant_links' = all_descendant_links \o child_links
    /\ crawl_result' = crawl_result \o LevelEntries
    /\ level_i' = level_i + 1
    /\ a_pc' = "loop"
    /\ UNCHANGED << cvars, pvars, svars, ROBOTS_CACHE, DOMAIN_SEMAPHORES, RATE_LIMITS,
                    LAST_REQUEST_TIMES, sems, tasks, now, site_robots, a_entry,
                    a_parent_url, recursive_depth, get_log, a_ret >>

\* lines 244-249, for a direct call of crawl_jobs
JobsReturn ==
    /\ a_entry = "crawl_jobs"
    /\ a_pc = "gather"
    /\ gather_done(LevelTasks)
    /\ a_ret' = [returned |-> TRUE, value |-> "tuple",
                 child_links |-> LevelChildLinks, crawled |-> LevelEntries]
    /\ a_pc' = "done"
    /\ UNCHANGED << cvars, pvars, svars, ROBOTS_CACHE, DOMAIN_SEMAPHORES, RATE_LIMITS,
                    LAST_REQUEST_TIMES, sems, tasks, now, site_robots, a_entry,
                    a_parent_url, recursive_depth, level_i, next_gen,
                    crawl_result, all_descendant_links, get_log >>

\* line 244: a task raised, gather raises in crawl_jobs and the exception
\* leaves the coroutine
GatherRaises ==
    /\ a_pc = "gather"
    /\ \E t \in LevelTasks : tasks[t].pc = "raised"
    /\ a_pc' = "raised"
    /\ UNCHANGED << cvars, pvars, svars, ROBOTS_CACHE, DOMAIN_SEMAPHORES, RATE_LIMITS,
                    LAST_REQUEST_TIMES, sems, tasks, now, site_robots, a_entry,
                    a_parent_url, recursive_depth, level_i, next_gen,
                    crawl_result, all_descendant_links, get_log, a_ret >>

\* lines 272-277
TargetReturn ==
    /\ a_entry = "crawl_target"
    /\ a_pc = "loop"
    /\ level_i >= recursive_depth
    /\ a_ret' = [returned |-> TRUE, value |-> "dict",
                 crawl_result |-> crawl_result,
                 descendant_links |-> all_descendant_links]
    /\ a_pc' = "done"
    /\ UNCHANGED << cvars, pvars, svars, ROBOTS_CACHE, DOMAIN_SEMAPHORES, RATE_LIMITS,
                    LAST_REQUEST_TIMES, sems, tasks, now, site_robots, a_entry,
                    a_parent_url, recursive_depth, level_i, next_gen,
                    crawl_result, all_descendant_links, get_log >>

ANext ==
    \/ TargetInvalid
    \/ TargetStart
    \/ LevelStart
    \/ TaskBegin
    \/ TaskRobotsDone
    \/ TaskAcquired
    \/ TaskDelayDone
    \/ TaskRateDone
    \/ TaskGetDone
    \/ Tick
    \/ TargetLevelEnd
    \/ JobsReturn
    \/ GatherRaises
    \/ TargetReturn

AsyncSpec == AInit /\ [][ANext]_vars

-----------------------------------------------------------------------------
(* crawl_jobs with five jobs of one domain that declares a request-rate *)

\* Request-rate: 2/1, no crawl-delay, nothing disallowed
RateRobots == Served(RobotsTxt({}, None, Some(<< 2, 1 >>), TRUE))

\* five pages of the site, each served with a document
RateJobs ==
    << Site(<< "/", "b" >>), Site(<< "/", "b", "/" >>), Site(<< "/", "b", "a" >>),
       Site(<< "/", "b", "b" >>), Site(<< "/", "b", "/", "a" >>) >>

\* the state read_robots_txt leaves when it has cached the policy of "site"
WarmState ==
    [ColdState EXCEPT
       !.cache["site"] = Some(Policy(None, RateRobots.txt.request_rate, TRUE)),
       !.domsem["site"] = 1,
       !.rate["site"] = RateRobots.txt.request_rate,
       !.sems = << [value |-> max_conc(RateRobots.txt.request_rate),
                    initial |-> max_conc(RateRobots.txt.request_rate)] >>]

RateInit ==
    /\ SyncIdle
    /\ NoCall
    /\ NoDeadline
    /\ now = 0
    /\ tasks = <<>>
    /\ get_log = <<>>
    /\ crawl_result = <<>>
    /\ all_descendant_links = <<>>
    /\ a_ret = NoReturn
    /\ level_i = 0
    /\ site_robots = [d \in Domains |-> IF d = "site" THEN RateRobots ELSE Unreachable]
    /\ a_entry = "crawl_jobs"
    /\ a_pc = "loop"
    /\ a_parent_url = InvalidSeed
    /\ recursive_depth = 1
    /\ next_gen = RateJobs
    /\ \/ DomainState(ColdState)
       \/ DomainState(WarmState)

RateNext ==
    \/ LevelStart
    \/ TaskBegin
    \/ TaskRobotsDone
    \/ TaskAcquired
    \/ TaskRateDone
    \/ TaskGetDone
    \/ Tick
    \/ JobsReturn

RateSpec == RateInit /\ [][RateNext]_vars

-----------------------------------------------------------------------------
(* crawl_target while the caller's deadline passes *)

\* the deadline of the run passes, or the caller asks for cancellation:
\* crawl_target takes parent_url and recursive_depth only and reads no
\* deadline, so nothing of the crawl changes; what was dispatched and
\* collected so far is noted
DeadlinePasses ==
    /\ ~deadline.passed
    /\ a_entry = "crawl_target"
    /\ a_pc \in { "loop", "gather" }
    /\ deadline' = [passed |-> TRUE, dispatched |-> Len(tasks),
                    collected |-> crawl_result]
    /\ UNCHANGED << svars, avars, pvars >>

DeadlineNext == ANext \/ DeadlinePasses

DeadlineSpec == AInit /\ [][DeadlineNext]_vars

-----------------------------------------------------------------------------
(* The asyncio crawler under a fair scheduler *)

\* a task is in asyncio.sleep and its timer is not due
Sleeping(t) == tasks[t].pc \in { "delay", "rate" } /\ tasks[t].wake > now

\* time goes on until the timer of every sleeping task is due
TimerTick ==
    /\ now >= MaxTime
    /\ \E t \in 1..Len(tasks) : Sleeping(t)
    /\ now' = now + 1
    /\ UNCHANGED << cvars, pvars, svars, ROBOTS_CACHE, DOMAIN_SEMAPHORES,
                    RATE_LIMITS, LAST_REQUEST_TIMES, sems, tasks, site_robots,
                    orch, get_log >>

FairNext == ANext \/ TimerTick

\* every GET and every sleep returns, the event loop runs every ready task,
\* and crawl_target and crawl_jobs run on when what they await is there
Fairness ==
    /\ WF_vars(TargetInvalid)
    /\ WF_vars(TargetStart)
    /\ WF_vars(LevelStart)
    /\ WF_vars(TaskBegin)
    /\ WF_vars(TaskRobotsDone)
    /\ WF_vars(TaskAcquired)
    /\ WF_vars(TaskDelayDone)
    /\ WF_vars(TaskRateDone)
    /\ WF_vars(TaskGetDone)
    /\ WF_vars(Tick)
    /\ WF_vars(TimerTick)
    /\ WF_vars(TargetLevelEnd)
    /\ WF_vars(JobsReturn)
    /\ WF_vars(GatherRaises)
    /\ WF_vars(TargetReturn)

FairSpec == AInit /\ [][FairNext]_vars /\ Fairness

\* either crawler is called
CrawlersInit == Init \/ AInit
CrawlersNext == Next \/ ANext
CrawlersSpec == CrawlersInit /\ [][CrawlersNext]_vars

-----------------------------------------------------------------------------
(* The pure functions, called on their own *)

PathChars == { "/", "a", "b" }

\* the URLs is_sub_path is called with
PureUrls ==
    { Url("https", n, path, TRUE) :
        n \in { "site", "other" }, path \in SeqsUpTo(PathChars, MaxPathLen) }

\* the href attributes of the documents extract_child_links is called with
PureHrefs == { hA, hAB, hABs, hAb, hBad, hAbsAB, hOther, hRelB, hFrag }

PureParents == { Site(pA), Site(pABs) }

PureInit ==
    /\ SyncIdle
    /\ AsyncIdle
    /\ NoCall
    /\ NoDeadline

Call_is_sub_path ==
    /\ fn = "none"
    /\ \E link \in PureUrls, parent_url \in PureUrls :
         /\ fn_args' = << link, parent_url >>
         /\ fn_result' = is_sub_path(link, parent_url)
    /\ fn' = "is_sub_path"
    /\ UNCHANGED << svars, avars, cvars >>

Call_extract_child_links ==
    /\ fn = "none"
    /\ \E raw_links \in SeqsUpTo(PureHrefs, MaxHrefs), parent_url \in PureParents :
         /\ fn_args' = << raw_links, parent_url >>
         /\ fn_result' = extract_child_links(raw_links, parent_url)
    /\ fn' = "extract_child_links"
    /\ UNCHANGED << svars, avars, cvars >>

PureNext ==
    \/ Call_is_sub_path
    \/ Call_extract_child_links

PureSpec == PureInit /\ [][PureNext]_vars

-----------------------------------------------------------------------------
(* Properties of the sequential crawler *)

Recursive == entry = "crawl_recursive"

\* the results of every fetch_url call made so far, in call order
Fetched ==
    all_crawl_results \o (IF pc = "batch" THEN crawled_results ELSE <<>>)

Urls(results) == [i \in 1..Len(results) |-> results[i].url]

LogUrls(op) == SelectSeq(net_log, LAMBDA e : e.op = op)

Successes(results) ==
    { i \in 1..Len(results) : results[i].status = CRAWL_SUCCESS }

\* C1: during crawl_recursive no URL is passed to fetch_url twice: the
\* results never hold two entries with the same url, no page is GET twice,
\* and the returned crawl_results has as many entries as distinct URLs.
C1_EachUrlFetchedOnce ==
    Recursive =>
    /\ NoDup(Urls(Fetched))
    /\ NoDup(Urls(LogUrls("page_get")))
    /\ ret.returned =>
         /\ NoDup(Urls(ret.crawl_results))
         /\ Cardinality(Range(Urls(ret.crawl_results))) = Len(ret.crawl_results)

\* C1 witness: with a cap of one, the seed found two children, the one cut
\* from level 2 was linked again by the page crawled at level 2, which also
\* links to itself, and was crawled at level 3.
C1_Witness ==
    /\ Recursive
    /\ ret.returned
    /\ max_pages_per_level = 1
    /\ Len(ret.crawl_results) = 3
    /\ Len(ret.crawl_results[1].children) = 2
    /\ ret.crawl_results[3].url \in Range(ret.crawl_results[1].children)
    /\ ret.crawl_results[3].url \in Range(ret.crawl_results[2].children)
    /\ ret.crawl_results[2].url \in Range(ret.crawl_results[2].children)

\* C2: no more than max_depth levels are crawled: a result of level 1 is
\* the seed, a result of level k > 1 is a child extracted from a successful
\* result of level k - 1, no level exceeds max_depth, and with max_depth = 0
\* a valid seed returns no result and nothing was fetched.
C2_DepthBound ==
    Recursive =>
    /\ pc = "batch" => depth < max_depth
    /\ \A i \in 1..Len(all_crawl_results) :
         /\ result_level[i] \in 1..max_depth
         /\ result_level[i] = 1 => all_crawl_results[i].url = start_url
         /\ result_level[i] > 1 =>
              \E j \in Successes(all_crawl_results) :
                 /\ result_level[j] = result_level[i] - 1
                 /\ all_crawl_results[i].url \in Range(all_crawl_results[j].children)
    /\ (ret.returned /\ validate_url(start_url) /\ max_depth = 0) =>
         /\ ret.crawl_results = <<>>
         /\ ret.total_pages = 0
         /\ net_log = <<>>

\* C2 witness: a run of max_depth = 3 that crawled a page at level 3.
C2_Witness ==
    /\ Recursive
    /\ ret.returned
    /\ max_depth = 3
    /\ \E i \in 1..Len(all_crawl_results) : result_level[i] = 3

\* the scope of the seed, as the claim words it
InSeedScope(url) ==
    LET p == rstrip(url.path)
        s == rstrip(start_url.path)
    IN  /\ url.netloc = start_url.netloc
        /\ \/ p = s
           \/ startswith(p, s \o << "/" >>)

\* C3: every URL fetched and every URL of child_links lies in the scope of
\* the seed, though each page's links are filtered against the page's URL.
C3_StaysInSeedScope ==
    Recursive =>
    /\ \A i \in 1..Len(Fetched) : InSeedScope(Fetched[i].url)
    /\ \A i \in 1..Len(net_log) :
         net_log[i].op = "page_get" => InSeedScope(net_log[i].url)
    /\ \A u \in all_child_links : InSeedScope(u)
    /\ (ret.returned /\ ret.error = "") =>
         \A u \in ret.child_links : InSeedScope(u)

\* C3 witness: a page below the seed was crawled at level 2 and its own
\* children, filtered against that page, were crawled at level 3.
C3_Witness ==
    /\ Recursive
    /\ ret.returned
    /\ \E i, j \in 1..Len(all_crawl_results) :
         /\ result_level[i] = 2
         /\ result_level[j] = 3
         /\ all_crawl_results[i].url # start_url
         /\ all_crawl_results[j].url \in Range(all_crawl_results[i].children)
         /\ rstrip(all_crawl_results[i].url.path) # rstrip(start_url.path)

\* the robots.txt GET of the n-th fetch_url call succeeded and its rules
\* deny the URL of that call
RobotsDisallows(n) ==
    /\ respect_robots
    /\ robots_txt.parses
    /\ ~can_fetch(robots_txt, Fetched[n].url)
    /\ \E k \in 1..Len(net_log) :
         /\ net_log[k].call = n
         /\ net_log[k].op = "robots_get"
         /\ net_log[k].outcome = "ok"

\* C4: when robots.txt was read and disallows the URL, fetch_url issues no
\* page GET and no sleep for it and returns robots_blocked with
\* robots_allowed false and the crawl delay recorded; a run whose seed is
\* disallowed issues no page GET at all.
C4_RobotsDenialMakesNoGet ==
    /\ \A n \in 1..Len(Fetched) :
         RobotsDisallows(n) =>
            /\ Fetched[n].status = CRAWL_ROBOTS_BLOCKED
            /\ Fetched[n].robots_allowed = FALSE
            /\ Fetched[n].crawl_delay =
                 Some(OrDefault(robots_txt.crawl_delay, default_crawl_delay))
            /\ \A k \in 1..Len(net_log) :
                 net_log[k].call = n => net_log[k].op = "robots_get"
    /\ (Recursive /\ Len(Fetched) >= 1 /\ RobotsDisallows(1)) =>
         LogUrls("page_get") = <<>>

\* C4 witness: a returned run whose seed was denied by robots.txt.
C4_Witness ==
    /\ Recursive
    /\ ret.returned
    /\ Len(ret.crawl_results) = 1
    /\ RobotsDisallows(1)
    /\ ret.crawl_results[1].status = CRAWL_ROBOTS_BLOCKED
    /\ ret.crawl_results[1].crawl_delay = Some(2)

\* the children of all successful results
Discovered(results) ==
    UNION { Range(results[i].children) : i \in Successes(results) }

\* the children of the successful results of one level, not yet crawled
FrontierOf(level) ==
    UNION { Range(all_crawl_results[i].children) :
              i \in { j \in Successes(all_crawl_results) : result_level[j] = level } }
    \ Range(Urls(all_crawl_results))

\* C8: fetch_url never raises; crawl_url_batch yields one result per input
\* URL in input order; the URLs after a failed one and the next level are
\* still processed.
C8_FailuresAreData ==
    /\ pc # "raised"
    /\ pc \in { "batch", "done" } =>
         /\ Len(crawled_results) <= Len(limited_urls)
         /\ Urls(crawled_results) = SubSeq(limited_urls, 1, Len(crawled_results))
    /\ (ret.returned /\ ~Recursive) =>
         /\ Urls(ret.crawl_results) = limited_urls
         /\ ret.child_links = Discovered(ret.crawl_results)
    /\ (pc = "loop" /\ depth > 0) =>
         /\ Urls(crawled_results) = limited_urls
         /\ SubSeq(all_crawl_results,
                   Len(all_crawl_results) - Len(limited_urls) + 1,
                   Len(all_crawl_results)) = crawled_results
         /\ Range(current_level) = FrontierOf(depth)
    /\ \A i \in 1..Len(Fetched) :
         Fetched[i].status \in { CRAWL_SUCCESS, CRAWL_FAILED,
                                 CRAWL_ROBOTS_BLOCKED, CRAWL_INVALID_URL }

\* C8 witness: at level 2 a URL failed, the URL after it succeeded, and a
\* level 3 was crawled.
C8_Witness ==
    /\ Recursive
    /\ ret.returned
    /\ \E i, k \in 1..Len(all_crawl_results) :
         /\ i + 1 <= Len(all_crawl_results)
         /\ result_level[i] = 2
         /\ result_level[i + 1] = 2
         /\ all_crawl_results[i].status = CRAWL_FAILED
         /\ all_crawl_results[i + 1].status = CRAWL_SUCCESS
         /\ result_level[k] = 3

\* C10: the returned child_links is the union of the children of the
\* successful results, crawled or not.
C10_ChildLinksAreAllDiscovered ==
    Recursive =>
    /\ pc = "loop" => all_child_links = Discovered(all_crawl_results)
    /\ (ret.returned /\ ret.error = "") =>
         ret.child_links = Discovered(ret.crawl_results)

\* C10 witness: the returned child_links holds a URL that was never crawled
\* because the cap cut it, and a level later than the first was crawled.
C10_Witness ==
    /\ Recursive
    /\ ret.returned
    /\ ret.error = ""
    /\ max_pages_per_level = 1
    /\ Len(ret.crawl_results) = max_depth
    /\ max_depth >= 2
    /\ \E u \in ret.child_links : u \notin Range(Urls(ret.crawl_results))

\* the calls of fetch_url of one level of crawl_recursive
LevelCalls(level) == { i \in 1..Len(result_level) : result_level[i] = level }

\* the children of the successful results of one level
ChildrenOfLevel(level) ==
    UNION { Range(all_crawl_results[i].children) :
              i \in LevelCalls(level) \cap Successes(all_crawl_results) }

\* C11: a level fetches at most max_pages_per_level URLs: the batch is the
\* first max_pages_per_level entries of the frontier, only the batch is
\* fetched, and the next frontier holds only children found in this level.
C11_LevelCap ==
    Recursive =>
      /\ \A i \in 1..Len(result_level) :
           Cardinality(LevelCalls(result_level[i])) <= max_pages_per_level
      /\ pc = "batch" =>
           /\ Len(limited_urls) <= max_pages_per_level
           /\ limited_urls = SubSeq(current_level, 1, Len(limited_urls))
           /\ (Len(limited_urls) < max_pages_per_level =>
                 limited_urls = current_level)
           /\ Urls(crawled_results) = SubSeq(limited_urls, 1, Len(crawled_results))
      /\ (pc = "loop" /\ depth >= 1) =>
           Range(current_level) \subseteq ChildrenOfLevel(depth)

\* C11 witness: a frontier longer than the cap was cut and the batch was
\* fetched to its end, the cut URL left out.
C11_Witness ==
    /\ Recursive
    /\ pc = "batch"
    /\ max_pages_per_level >= 1
    /\ Len(current_level) > max_pages_per_level
    /\ Len(crawled_results) = Len(limited_urls)
    /\ \E u \in Range(current_level) : u \notin Range(Urls(Fetched))

\* C12: an invalid seed ends the call at once: crawl_recursive returns the
\* error entry with no results, no child links and total_pages 0,
\* crawl_target returns None, and no robots.txt GET or page GET is made.
C12_InvalidSeedFailsFast ==
    /\ (entry = "crawl_recursive" /\ start_url = InvalidSeed) =>
         /\ pc \in { "start", "done" }
         /\ net_log = <<>>
         /\ Fetched = <<>>
         /\ ret.returned =>
              /\ ret.error = "Invalid start URL"
              /\ ret.crawl_results = <<>>
              /\ ret.child_links = {}
              /\ ret.total_pages = 0
    /\ (a_entry = "crawl_target" /\ a_parent_url = InvalidSeed) =>
         /\ a_pc \in { "start", "done" }
         /\ tasks = <<>>
         /\ get_log = <<>>
         /\ a_ret.returned => a_ret.value = "None"

\* C12 witness: crawl_recursive has returned for an invalid seed.
C12_Witness ==
    /\ entry = "crawl_recursive"
    /\ start_url = InvalidSeed
    /\ ret.returned

\* the entries of net_log made by the n-th call of fetch_url
CallLog(n) == SelectSeq(net_log, LAMBDA e : e.call = n)

\* C13: fetch_url of a URL that fails validation returns invalid_url with
\* robots_allowed false, no content and no children, and does nothing
\* else: no robots.txt GET, no sleep, no page GET.
C13_InvalidUrlMakesNoCall ==
    \A n \in 1..Len(Fetched) :
      ~Fetched[n].url.wf =>
        /\ Fetched[n].status = CRAWL_INVALID_URL
        /\ Fetched[n].robots_allowed = FALSE
        /\ Fetched[n].content = ""
        /\ Fetched[n].children = <<>>
        /\ CallLog(n) = <<>>

\* C13 witness: a batch with an invalid URL between two valid ones has
\* returned, and the calls before and after it went to the network.
C13_Witness ==
    /\ entry = "crawl_url_batch"
    /\ ret.returned
    /\ Len(ret.crawl_results) = 3
    /\ ret.crawl_results[2].status = CRAWL_INVALID_URL
    /\ ret.crawl_results[3].status = CRAWL_SUCCESS
    /\ CallLog(1) # <<>>
    /\ CallLog(3) # <<>>

\* the page GETs of the n-th call of fetch_url
PageGets(n) == SelectSeq(CallLog(n), LAMBDA e : e.op = "page_get")

\* the n-th call sent its page GET and the GET raised or answered with a
\* status that is not 2xx
GetFailed(n) ==
    /\ Len(PageGets(n)) = 1
    /\ \/ PageGets(n)[1].outcome = "exc"
       \/ /\ Fetched[n].status_code # None
          /\ Fetched[n].status_code[1] \notin 200..299

\* C14: a page GET that raises or answers with a non-success status gives
\* status failed, no content, no children and an error message ("HTTP" and
\* the code, or the exception's text); a call sends at most one page GET
\* and a run never sends a second GET to a URL.
C14_FailedIsFinal ==
    /\ \A n \in 1..Len(Fetched) :
         /\ Len(PageGets(n)) <= 1
         /\ GetFailed(n) =>
              /\ Fetched[n].status = CRAWL_FAILED
              /\ Fetched[n].content = ""
              /\ Fetched[n].children = <<>>
              /\ Fetched[n].error_message \notin { "", "None" }
              /\ (PageGets(n)[1].outcome = "exc") = (Fetched[n].status_code = None)
              /\ Fetched[n].status_code # None => Fetched[n].error_message = "HTTP"
    /\ Recursive =>
         \A i, j \in 1..Len(net_log) :
           (net_log[i].op = "page_get" /\ net_log[j].op = "page_get"
              /\ net_log[i].url = net_log[j].url) => i = j

\* C14 witness: a returned run holds a result failed by a 404 and a result
\* failed by an exception, each after exactly one page GET.
C14_Witness ==
    /\ Recursive
    /\ ret.returned
    /\ \E i, j \in 1..Len(ret.crawl_results) :
         /\ GetFailed(i)
         /\ GetFailed(j)
         /\ ret.crawl_results[i].status_code = Some(404)
         /\ ret.crawl_results[j].status_code = None

\* C15: a page GET answered with any 2xx status gives status success with
\* the status code recorded and the body parsed; only a status that is not
\* 2xx gives failed.
C15_Any2xxIsSuccess ==
    \A n \in 1..Len(Fetched) :
      (Len(PageGets(n)) = 1 /\ Fetched[n].status_code # None) =>
        /\ Fetched[n].status_code[1] \in 200..299 =>
             /\ Fetched[n].status = CRAWL_SUCCESS
             /\ Fetched[n].error_message = "None"
        /\ Fetched[n].status = CRAWL_FAILED =>
             Fetched[n].status_code[1] \notin 200..299

\* the robots.txt GET of the n-th call of fetch_url failed
RobotsGetFailed(n) ==
    \E k \in 1..Len(net_log) :
      /\ net_log[k].call = n
      /\ net_log[k].op = "robots_get"
      /\ net_log[k].outcome # "ok"

\* C16: when the robots.txt GET fails the policy is default-allow with no
\* crawl-delay and no request-rate: the fetch is not blocked, sleeps for no
\* crawl-delay and sends its page GET.
C16_UnreachableRobotsNoDelay ==
    \A n \in 1..Len(Fetched) :
      RobotsGetFailed(n) =>
        /\ Fetched[n].status # CRAWL_ROBOTS_BLOCKED
        /\ Fetched[n].robots_allowed
        /\ Len(PageGets(n)) = 1
        /\ \A k \in 1..Len(net_log) :
             net_log[k].call = n => net_log[k].op # "sleep"
        /\ Fetched[n].crawl_delay \in { None, Some(0) }

\* the robots.txt GETs a run sent to a domain
RobotsGets(d) ==
    SelectSeq(net_log, LAMBDA e : e.op = "robots_get" /\ e.url.netloc = d)

\* C17: one run of crawl_recursive sends at most one robots.txt GET to a
\* domain; later fetches of the domain use the cached policy.
C17_RobotsReadOncePerRun ==
    Recursive =>
      \A i \in 1..Len(net_log) : Len(RobotsGets(net_log[i].url.netloc)) <= 1

\* the seed /a was crawled with max_depth 2 and its page, fetched with
\* success, links to /a/b and to /b
SeedLinksInAndOut ==
    /\ Recursive
    /\ start_url = Site(pA)
    /\ max_depth = 2
    /\ max_pages_per_level >= 1
    /\ Len(Fetched) >= 1
    /\ Fetched[1].status = CRAWL_SUCCESS
    /\ Len(PageGets(1)) = 1
    /\ PageGets(1)[1].hrefs = << hAB, hB >>

IsBlogUrl(u) == startswith(u.path, << "/", "b" >>)

\* C23: in that scenario level 1 fetches /a only, level 2 fetches /a/b
\* only, /b is never fetched, and the returned child_links holds /a/b and
\* no /b URL.
C23_DocsScenario ==
    SeedLinksInAndOut =>
      /\ Fetched[1].url = Site(pA)
      /\ Fetched[1].children = << Site(pAB) >>
      /\ Len(Fetched) <= 2
      /\ Len(Fetched) = 2 => Fetched[2].url = Site(pAB)
      /\ \A k \in 1..Len(net_log) : ~IsBlogUrl(net_log[k].url)
      /\ ret.returned =>
           /\ Urls(ret.crawl_results) = << Site(pA), Site(pAB) >>
           /\ result_level = << 1, 2 >>
           /\ Site(pAB) \in ret.child_links
           /\ \A u \in ret.child_links : ~IsBlogUrl(u)

\* C23 witness: the scenario ran to its end.
C23_Witness ==
    /\ SeedLinksInAndOut
    /\ ret.returned
    /\ Len(ret.crawl_results) = 2
    /\ ret.crawl_results[2].status = CRAWL_SUCCESS

\* C29: the dictionary crawl_recursive returns for a valid seed has
\* total_pages = successful_pages + failed_pages + robots_blocked_pages, and
\* no result of a recursive crawl has status invalid_url.
C29_TotalsAddUp ==
    Recursive =>
      /\ validate_url(start_url) =>
           \A n \in 1..Len(Fetched) : Fetched[n].status # CRAWL_INVALID_URL
      /\ (ret.returned /\ ret.error = "") =>
           /\ ret.total_pages = Len(ret.crawl_results)
           /\ ret.total_pages =
                ret.successful_pages + ret.failed_pages + ret.robots_blocked_pages

\* C29 witness: a returned run with a success, a failure and a blocked URL,
\* in which a page carried a link that fails validation.
C29_Witness ==
    /\ Recursive
    /\ ret.returned
    /\ ret.error = ""
    /\ ret.successful_pages >= 1
    /\ ret.failed_pages + ret.robots_blocked_pages >= 1
    /\ \E k \in 1..Len(net_log) :
         /\ net_log[k].op = "page_get"
         /\ hBad \in Range(net_log[k].hrefs)
         /\ Fetched[net_log[k].call].status = CRAWL_SUCCESS

-----------------------------------------------------------------------------
(* Properties of the asyncio crawler *)

\* the tasks of a domain that hold a permit of a semaphore
InGate(d) ==
    { t \in 1..Len(tasks) :
        /\ get_domain(tasks[t].url) = d
        /\ tasks[t].pc \in { "delay", "rate", "get" } }

\* the request-rate the robots.txt of a domain declares, if it is served
DeclaredRate(d) ==
    IF site_robots[d].served THEN site_robots[d].txt.request_rate ELSE None

\* the limit of a domain: the declared request-rate count, else 3
GateLimit(d) ==
    IF DeclaredRate(d) # None THEN DeclaredRate(d)[1][1] ELSE 3

\* C5: the fetches of a domain that are inside its gate at the same time
\* never exceed the domain's limit, also when no policy was cached when they
\* started.
C5_GateBoundsInFlight ==
    \A d \in Domains : Cardinality(InGate(d)) <= GateLimit(d)

\* the page GETs sent to a domain from time s on and before time s + w
GetsIn(d, s, w) ==
    { k \in 1..Len(get_log) :
        /\ get_log[k].domain = d
        /\ s <= get_log[k].time
        /\ get_log[k].time < s + w }

\* C6: for a domain that declares N requests per W seconds, no interval of
\* length W holds more than N page GETs.
C6_RateBoundsGets ==
    \A d \in Domains :
      DeclaredRate(d) # None =>
        \A s \in 0..MaxTime :
          Cardinality(GetsIn(d, s, DeclaredRate(d)[1][2])) <= DeclaredRate(d)[1][1]

\* C7: in crawl_target a task of a later level exists only when every task
\* of the earlier levels has completed and its entry is in crawl_result.
C7_LevelBarrier ==
    a_entry = "crawl_target" =>
      \A t, u \in 1..Len(tasks) :
        tasks[t].level < tasks[u].level =>
          /\ tasks[t].pc = "done"
          /\ t <= Len(crawl_result)
          /\ crawl_result[t] = Entry(t)

\* C7 witness: the second level ran two fetches whose GETs were sent out of
\* job order, and a fetch of the third level has started.
C7_Witness ==
    /\ a_entry = "crawl_target"
    /\ level_i = 2
    /\ \E t \in LevelTasks : tasks[t].pc # "new"
    /\ \E i, j \in 1..Len(get_log) :
         /\ i < j
         /\ get_log[i].task > get_log[j].task
         /\ tasks[get_log[i].task].level = 2
         /\ tasks[get_log[j].task].level = 2

\* C9: no page outcome makes a fetch task, crawl_jobs or crawl_target raise,
\* and crawl_jobs returns one entry per job.
C9_NoPageAbortsTheLevel ==
    /\ a_pc # "raised"
    /\ \A t \in 1..Len(tasks) : tasks[t].pc # "raised"
    /\ (a_entry = "crawl_jobs" /\ a_ret.returned) =>
          Len(a_ret.crawled) = Len(next_gen)

\* C18: a page GET is sent only for a URL that the robots.txt of its domain
\* allows, whatever policy an earlier URL of the domain left in the cache.
C18_AllowDecisionPerUrl ==
    \A k \in 1..Len(get_log) :
      LET url == tasks[get_log[k].task].url
          robots == site_robots[get_log[k].domain]
      IN  robots.served => can_fetch(robots.txt, url)

\* C19: a run of crawl_target fetches a URL at most once: no two fetch
\* tasks have the same URL and crawl_result holds no two entries with the
\* same url.
C19_TargetFetchesUrlOnce ==
    a_entry = "crawl_target" =>
      /\ \A t, u \in 1..Len(tasks) : tasks[t].url = tasks[u].url => t = u
      /\ \A i, j \in 1..Len(crawl_result) :
           crawl_result[i].url = crawl_result[j].url => i = j

\* the tasks that hold a permit of semaphore s
Holders(s) ==
    { t \in 1..Len(tasks) :
        tasks[t].sem = s /\ tasks[t].pc \in { "delay", "rate", "get" } }

\* no fetch is between its start and its end
NoFetchInProgress ==
    \A t \in 1..Len(tasks) : tasks[t].pc \in { "new", "done", "raised" }

PastDelay(s) ==
    { t \in 1..Len(tasks) : tasks[t].sem = s /\ tasks[t].pc \in { "rate", "get" } }

\* C26: a fetch sleeps for the crawl-delay before it acquires the lease of
\* its domain: the permits taken from a semaphore are those of the fetches
\* that wait on the rate limiter or on their GET, and no fetch in its
\* crawl-delay sleep has taken one.
C26_DelaySleepBeforeLease ==
    \A s \in 1..Len(sems) :
      sems[s].value + Cardinality(PastDelay(s)) = sems[s].initial

\* C27: for a domain with declared request-rate (N, W) the timestamp list
\* of the domain never holds more than N entries.
C27_HistoryBoundedByRate ==
    \A d \in Domains :
      RATE_LIMITS[d] # None =>
        Len(LAST_REQUEST_TIMES[d]) <= RATE_LIMITS[d][1][1]

\* the tasks a step created or moved
Stepped == { t \in 1..Len(tasks') : t > Len(tasks) \/ tasks'[t] # tasks[t] }

\* the semaphores of a domain: the registered one and those its fetches use
SemsOf(d) ==
    { s \in 1..Len(sems) :
        \/ DOMAIN_SEMAPHORES[d] = s
        \/ \E t \in 1..Len(tasks) : tasks[t].url.netloc = d /\ tasks[t].sem = s }

\* C28: a step in which no fetch of domain B moves leaves B's entries of
\* _ROBOTS_CACHE, _DOMAIN_SEMAPHORES, _RATE_LIMITS and _LAST_REQUEST_TIMES
\* and B's semaphores unchanged, and no semaphore serves two domains.
C28_DomainsAreIndependent ==
    [][ /\ \A b \in Domains :
             (\A t \in Stepped : tasks'[t].url.netloc # b) =>
               /\ ROBOTS_CACHE'[b] = ROBOTS_CACHE[b]
               /\ DOMAIN_SEMAPHORES'[b] = DOMAIN_SEMAPHORES[b]
               /\ RATE_LIMITS'[b] = RATE_LIMITS[b]
               /\ LAST_REQUEST_TIMES'[b] = LAST_REQUEST_TIMES[b]
               /\ \A s \in SemsOf(b) : sems'[s] = sems[s]
        /\ \A a, b \in Domains : a # b => (SemsOf(a) \cap SemsOf(b) = {})' ]_vars

\* C28 witness: fetches of both domains have their GET in flight, each
\* domain with its policy cached and its own semaphore.
C28_Witness ==
    /\ \A d \in Domains : ROBOTS_CACHE[d] # None /\ DOMAIN_SEMAPHORES[d] # 0
    /\ \E t, u \in 1..Len(tasks) :
         /\ tasks[t].url.netloc = "site"
         /\ tasks[u].url.netloc = "other"
         /\ tasks[t].pc = "get"
         /\ tasks[u].pc = "get"
         /\ RATE_LIMITS["site"] # None
         /\ LAST_REQUEST_TIMES["site"] # <<>>

\* the five fetches of RateJobs have sent their GETs under Request-rate N/W
FiveGetsSent ==
    /\ next_gen = RateJobs
    /\ DeclaredRate("site") = RateRobots.txt.request_rate
    /\ Len(get_log) >= Len(RateJobs)

\* C24: with Request-rate 2/1 and five fetches of one domain dispatched
\* together, the fifth page GET is sent no earlier than 2 seconds, two
\* windows, after the first, whether the policy was cached or not.
C24_FifthGetAfterTwoWindows ==
    FiveGetsSent =>
      get_log[5].time - get_log[1].time >= 2 * DeclaredRate("site")[1][2]

\* C25: once the deadline or cancellation signal is triggered no new fetch
\* is dispatched, and the results collected before the signal are returned
\* unchanged as partial output.
C25_DeadlineStopsDispatch ==
    deadline.passed =>
      /\ Len(tasks) = deadline.dispatched
      /\ a_ret.returned =>
           /\ a_ret.value = "dict"
           /\ Len(a_ret.crawl_result) >= Len(deadline.collected)
           /\ SubSeq(a_ret.crawl_result, 1, Len(deadline.collected)) = deadline.collected

\* every fetch that was dispatched has ended, with an entry or an exception
AllFetchesEnded ==
    /\ AllBegun
    /\ \A t \in 1..Len(tasks) : tasks[t].pc \in { "done", "raised" }

\* C30: under a fair scheduler, with every GET and every sleep returning,
\* every dispatched fetch completes and crawl_target (or crawl_jobs)
\* eventually returns.
C30_CrawlEventuallyReturns ==
    <>(a_ret.returned /\ \A t \in 1..Len(tasks) : tasks[t].pc = "done")

-----------------------------------------------------------------------------
(* Properties of the pure functions *)

\* the scope relation as the specification words it
InScopeOf(link, parent_url) ==
    /\ link.netloc = parent_url.netloc
    /\ \/ rstrip(link.path) = rstrip(parent_url.path)
       \/ startswith(rstrip(link.path), rstrip(parent_url.path) \o << "/" >>)

\* C21: is_sub_path(L, P) is true exactly when L and P have the same netloc
\* and the stripped path of L equals the stripped path of P or starts with
\* it followed by "/"; for parent /a it is true for /a and /a/b and false
\* for /ab, /b and another domain's /a.
C21_IsSubPathIsScope ==
    fn = "is_sub_path" =>
      /\ fn_result = InScopeOf(fn_args[1], fn_args[2])
      /\ fn_args[2] = Site(pA) =>
           /\ fn_args[1] \in { Site(pA), Site(pAB), Site(pABs) } => fn_result
           /\ fn_args[1] \in { Site(pAb), Site(<< "/", "b" >>),
                               Url("https", "other", pA, TRUE) } => ~fn_result

\* C21 witness: the link /ab was tested against the parent /a and refused.
C21_Witness ==
    /\ fn = "is_sub_path"
    /\ fn_args = << Site(pAb), Site(pA) >>
    /\ fn_result = FALSE

\* the links of a document that pass the filter, in document order
Kept(raw_links, parent_url) ==
    SelectSeq(absolute_links(raw_links, parent_url),
              LAMBDA l : is_sub_path(l, parent_url) /\ l.wf)

\* the position of the first occurrence of x in s
FirstIndex(s, x) ==
    CHOOSE i \in 1..Len(s) : s[i] = x /\ \A k \in 1..(i - 1) : s[k] # x

\* C22: extract_child_links returns each kept URL once, in the order of
\* the first occurrence of each in the document.
C22_ChildLinksUniqueInOrder ==
    fn = "extract_child_links" =>
      LET kept == Kept(fn_args[1], fn_args[2])
      IN  /\ NoDup(fn_result)
          /\ Range(fn_result) = Range(kept)
          /\ \A i, j \in 1..Len(fn_result) :
               i < j => FirstIndex(kept, fn_result[i]) < FirstIndex(kept, fn_result[j])

\* C22 witness: an absolute and a root-relative href of the same URL, with
\* another link between them, gave two children.
C22_Witness ==
    /\ fn = "extract_child_links"
    /\ fn_args = << << hAbsAB, hABs, hAB >>, Site(pA) >>
    /\ fn_result = << Site(pAB), Site(pABs) >>

====
